---- MODULE Spec2Model ----
(***************************************************************************)
(* Model of script/tg_bot_alert.py: a command-line program that sends one  *)
(* text message through the Telegram Bot HTTP API and exits 0 or 1.        *)
(*                                                                         *)
(* One run of the program is one behaviour.  The inputs of a run (the      *)
(* command line, the environment, what the HTTP backend answers, and which *)
(* exception class the installed HTTP library raises for an undecodable    *)
(* body) are chosen in Init and never change.  Each action is one step of  *)
(* main or of send_telegram_message.                                       *)
(*                                                                         *)
(* The printed strings of the source are Russian; the model spells them in *)
(* ASCII.  A printed line is a tuple of string pieces (an f-string is the  *)
(* tuple of its literal part and its interpolated part).                   *)
(***************************************************************************)
EXTENDS Naturals, Sequences, FiniteSets

(***************************************************************************)
(* Bounds of the model.                                                    *)
(***************************************************************************)
\* the command line carries 0..MaxArgs arguments after the script name
MaxArgs == 2
\* the harness of SpecTwice calls send_telegram_message this many times
MaxCalls == 2

(***************************************************************************)
(* Python / JSON values, tagged by type.                                   *)
(***************************************************************************)
PyNone == [t |-> "none"]
PyBool(b) == [t |-> "bool", b |-> b]
PyInt(n) == [t |-> "int", n |-> n]
PyStr(s) == [t |-> "str", s |-> s]
PyList(l) == [t |-> "list", l |-> l]
PyDict(d) == [t |-> "dict", d |-> d]
\* a local variable that no assignment has bound yet
Unbound == [t |-> "unbound"]

\* bool(v): Python truth value testing
Truthy(v) ==
    CASE v.t = "none" -> FALSE
      [] v.t = "bool" -> v.b
      [] v.t = "int"  -> v.n # 0
      [] v.t = "str"  -> v.s # ""
      [] v.t = "list" -> v.l # <<>>
      [] v.t = "dict" -> DOMAIN v.d # {}

\* str(v) as an f-string interpolates it (only the cases that occur)
Str(v) ==
    CASE v.t = "none" -> "None"
      [] v.t = "str"  -> v.s
      [] v.t = "bool" -> IF v.b THEN "True" ELSE "False"
      [] OTHER        -> "<repr>"

(***************************************************************************)
(* Inputs of a run.                                                        *)
(***************************************************************************)
Texts == {"disk full", "<b>cpu</b>"}

\* sys.argv[1:], every command line of at most MaxArgs arguments
ArgLists == UNION {[1..n -> Texts] : n \in 0..MaxArgs}

\* a variable of the environment: unset, set to the empty string, or set
EnvUnset == PyNone
TokenValues == {EnvUnset, PyStr(""), PyStr("123:ABC")}
ChatValues == {EnvUnset, PyStr(""), PyStr("-1001")}
Environments ==
    [EMU_ALERT_TG_BOT_TOKEN : TokenValues, EMU_ALERT_TG_CHAT_ID : ChatValues]

\* optional field: <<>> when absent, <<v>> when present
Opt(S) == {<<>>} \cup {<<v>> : v \in S}

OkValues ==
    {PyBool(TRUE), PyBool(FALSE), PyNone, PyInt(0), PyInt(1), PyStr(""),
     PyStr("false")}
DescriptionValues == {PyStr("chat not found"), PyNone}

JsonObject(okOpt, descOpt) ==
    PyDict([k \in (IF okOpt = <<>> THEN {} ELSE {"ok"})
                  \cup (IF descOpt = <<>> THEN {} ELSE {"description"})
            |-> IF k = "ok" THEN okOpt[1] ELSE descOpt[1]])

JsonObjects ==
    {JsonObject(o, d) : o \in Opt(OkValues), d \in Opt(DescriptionValues)}
JsonNonObjects ==
    {PyList(<<>>), PyList(<<PyInt(1)>>), PyStr("ok"), PyInt(1), PyNone,
     PyBool(TRUE)}

\* a response body: text that decodes to a JSON value, or text that does not
Bodies ==
    {[json |-> TRUE, value |-> v] : v \in JsonObjects \cup JsonNonObjects}
    \cup {[json |-> FALSE, text |-> s] : s \in {"", "<html>"}}

StatusCodes == {200, 304, 400, 404, 500}

\* what requests.post meets: no response at all, or a response
TransportErrors == {"ConnectionError", "Timeout"}
Backends ==
    {[kind |-> "error", cls |-> c] : c \in TransportErrors}
    \cup {[kind |-> "response", status_code |-> s, body |-> b] :
             s \in StatusCodes, b \in Bodies}

\* the class response.json() raises for an undecodable body depends on the
\* installed requests: requests.exceptions.JSONDecodeError, a subclass of
\* both RequestException and json.JSONDecodeError (requests 2.27 and later),
\* or json.JSONDecodeError itself (earlier releases)
JsonErrorClasses ==
    {"requests.JSONDecodeError", "json.JSONDecodeError"}

(***************************************************************************)
(* The strings the program prints.                                         *)
(***************************************************************************)
MSG_NO_BOT_TOKEN == <<"Oshibka: ne naiden TELEGRAM_BOT_TOKEN v peremennykh okruzheniya">>
MSG_NO_CHAT_ID == <<"Oshibka: ne naiden TELEGRAM_USER_ID v peremennykh okruzheniya">>
MSG_SENT == <<"Soobshchenie uspeshno otpravleno!">>
PREFIX_API_ERROR == "Oshibka API: "
UNKNOWN_ERROR == "Neizvestnaya oshibka"
PREFIX_NETWORK_ERROR == "Oshibka seti: "
PREFIX_JSON_ERROR == "Oshibka parsinga JSON: "
MSG_USAGE == <<"Ispolzovanie: python telegram_sender.py 'Tekst soobshcheniya'">>
MSG_USAGE_ENV == <<"\n", "Pered ispolzovaniem ustanovite peremennye okruzheniya:">>

(***************************************************************************)
(* Exceptions.  An exception is its class and str(e).                      *)
(***************************************************************************)
NoExc == [cls |-> "", detail |-> ""]
Exc(cls, detail) == [cls |-> cls, detail |-> detail]

\* the classes an `except requests.exceptions.RequestException` clause catches
RequestExceptionClasses ==
    {"ConnectionError", "Timeout", "HTTPError", "requests.JSONDecodeError"}
\* the classes an `except json.JSONDecodeError` clause catches
JSONDecodeErrorClasses ==
    {"requests.JSONDecodeError", "json.JSONDecodeError"}

\* Response.raise_for_status raises HTTPError for 4xx and 5xx
RaisesForStatusOnlyServer(status_code) ==
    500 <= status_code /\ status_code < 600

RaisesForStatus(status_code) ==
    400 <= status_code /\ status_code < 600

\* dict.get(key, default)
DictGet(d, key, default) ==
    IF key \in DOMAIN d.d THEN d.d[key] ELSE default

\* os.getenv(name): None when the variable is unset
GetEnv(env, name) == env[name]

\* str(e) of the HTTPError raise_for_status raises
HttpErrorDetail(status_code) ==
    IF status_code < 500 THEN "Client Error" ELSE "Server Error"
\* str(e) of a transport failure
TransportErrorDetail(cls) ==
    IF cls = "Timeout" THEN "timed out" ELSE "Connection refused"

(***************************************************************************)
(* State.                                                                  *)
(***************************************************************************)
VARIABLES
    argv,        \* sys.argv[1:]
    environ,     \* os.environ, the two variables the program reads
    backend,     \* what the HTTP backend does with a request
    jsonError,   \* the class response.json() raises on an undecodable body
    caller,      \* "main": the program; "harness": repeated direct calls
    pc,          \* position of the run
    text,        \* parameter of send_telegram_message
    bot_token, tg_chat_id, url, data, response, result,   \* its locals
    exc,         \* the exception in flight
    ret,         \* the value send_telegram_message returned
    stdout,      \* the print calls so far, in order
    stderr,      \* the interpreter's traceback of an uncaught exception
    requests,    \* the requests.post calls so far, in order
    envReads,    \* the os.getenv calls so far, in order
    exitCode,    \* the exit status of the process, NoExit while it runs
    mark,        \* harness: lengths of stdout and requests at the last call
    outcomes     \* harness: the outcome of each finished call

inputs == <<argv, environ, backend, jsonError, caller>>
locals == <<text, bot_token, tg_chat_id, url, data, response, result>>
effects == <<stdout, stderr, requests, envReads>>
vars == <<inputs, pc, locals, exc, ret, effects, exitCode, mark, outcomes>>

\* the process has not exited; the function has not returned a value
NoExit == [t |-> "running"]
NoReturn == Unbound

InitRun ==
    /\ environ \in Environments
    /\ backend \in Backends
    /\ jsonError \in JsonErrorClasses
    /\ text = Unbound
    /\ bot_token = Unbound /\ tg_chat_id = Unbound
    /\ url = Unbound /\ data = Unbound
    /\ response = Unbound /\ result = Unbound
    /\ exc = NoExc
    /\ ret = NoReturn
    /\ stdout = <<>> /\ stderr = <<>> /\ requests = <<>> /\ envReads = <<>>
    /\ exitCode = NoExit
    /\ mark = <<0, 0>>
    /\ outcomes = <<>>

\* the program started from the command line
Init ==
    /\ argv \in ArgLists
    /\ caller = "main"
    /\ pc = "main"
    /\ InitRun

\* a new frame of send_telegram_message(message)
Call(message) ==
    /\ text' = PyStr(message)
    /\ bot_token' = Unbound /\ tg_chat_id' = Unbound
    /\ url' = Unbound /\ data' = Unbound
    /\ response' = Unbound /\ result' = Unbound
    /\ exc' = NoExc
    /\ ret' = NoReturn
    /\ pc' = "getenv"

(***************************************************************************)
(* main                                                                    *)
(***************************************************************************)
\* len(sys.argv) counts the script name too
WrongArgumentCountTooFewOnly == Len(argv) + 1 < 2

WrongArgumentCount == Len(argv) + 1 # 2

MainUsage ==
    /\ pc = "main"
    /\ WrongArgumentCount
    /\ stdout' = stdout \o <<MSG_USAGE, MSG_USAGE_ENV>>
    /\ exitCode' = PyInt(1)
    /\ pc' = "exited"
    /\ UNCHANGED <<inputs, locals, exc, ret, stderr, requests, envReads, mark, outcomes>>

MainCall ==
    /\ pc = "main"
    /\ ~WrongArgumentCount
    /\ Call(argv[1])
    /\ UNCHANGED <<inputs, effects, exitCode, mark, outcomes>>

\* if send_telegram_message(message_text): sys.exit(0) else: sys.exit(1)
ExitStatus(returned) == IF Truthy(returned) THEN PyInt(0) ELSE PyInt(1)

MainExit ==
    /\ caller = "main"
    /\ pc = "returned"
    /\ exitCode' = ExitStatus(ret)
    /\ pc' = "exited"
    /\ UNCHANGED <<inputs, locals, exc, ret, effects, mark, outcomes>>

\* an exception that leaves main ends the interpreter: traceback, status 1
MainUncaught ==
    /\ caller = "main"
    /\ pc = "raised"
    /\ stderr' = stderr \o <<<<"Traceback (most recent call last):", exc.cls, exc.detail>>>>
    /\ exitCode' = PyInt(1)
    /\ pc' = "exited"
    /\ UNCHANGED <<inputs, locals, exc, ret, stdout, requests, envReads, mark, outcomes>>

(***************************************************************************)
(* send_telegram_message                                                   *)
(***************************************************************************)
WriteLine(line) == stdout' = Append(stdout, line)

\* return value: leaves the function with no exception in flight
Return(value) ==
    /\ ret' = value
    /\ exc' = NoExc
    /\ pc' = "returned"

\* raise inside the try block: the except clauses are tried next
Raise(e) ==
    /\ exc' = e
    /\ pc' = "except"

ReadEnvironment ==
    /\ pc = "getenv"
    /\ bot_token' = GetEnv(environ, "EMU_ALERT_TG_BOT_TOKEN")
    /\ tg_chat_id' = GetEnv(environ, "EMU_ALERT_TG_CHAT_ID")
    /\ envReads' = envReads \o <<"EMU_ALERT_TG_BOT_TOKEN", "EMU_ALERT_TG_CHAT_ID">>
    /\ pc' = "check_token"
    /\ UNCHANGED <<inputs, text, url, data, response, result, exc, ret,
                   stdout, stderr, requests, exitCode, mark, outcomes>>

\* if not bot_token
BotTokenMissing == ~Truthy(bot_token)

CheckBotToken ==
    /\ pc = "check_token"
    /\ IF BotTokenMissing
       THEN WriteLine(MSG_NO_BOT_TOKEN) /\ Return(PyBool(FALSE))
       ELSE pc' = "check_chat" /\ UNCHANGED <<stdout, ret, exc>>
    /\ UNCHANGED <<inputs, locals, stderr, requests, envReads, exitCode, mark, outcomes>>

\* if not tg_chat_id
ChatIdMissingChecksToken == ~Truthy(bot_token)

ChatIdMissing == ~Truthy(tg_chat_id)

CheckChatId ==
    /\ pc = "check_chat"
    /\ IF ChatIdMissing
       THEN WriteLine(MSG_NO_CHAT_ID) /\ Return(PyBool(FALSE))
       ELSE pc' = "build" /\ UNCHANGED <<stdout, ret, exc>>
    /\ UNCHANGED <<inputs, locals, stderr, requests, envReads, exitCode, mark, outcomes>>

\* the url and the json payload of the request
Url(token) == <<"https://api.telegram.org/bot", Str(token), "/sendMessage">>
\* a payload kept at module level and stripped after the first send
DataReusedAcrossCalls(chat_id, message) ==
    [chat_id |-> chat_id, text |-> message,
     parse_mode |-> IF requests = <<>> THEN "HTML" ELSE ""]

Data(chat_id, message) ==
    [chat_id |-> chat_id, text |-> message, parse_mode |-> "HTML"]

BuildRequest ==
    /\ pc = "build"
    /\ url' = Url(bot_token)
    /\ data' = Data(tg_chat_id, text)
    /\ pc' = "post"
    /\ UNCHANGED <<inputs, text, bot_token, tg_chat_id, response, result, exc, ret,
                   effects, exitCode, mark, outcomes>>

\* the requests issued once requests.post(u, json=d) was called
PostedTwice(sent, u, d) ==
    sent \o <<[url |-> u, json |-> d], [url |-> u, json |-> d]>>

Posted(sent, u, d) ==
    Append(sent, [url |-> u, json |-> d])

\* requests.post(url, json=data): one request; a transport failure raises
Post ==
    /\ pc = "post"
    /\ requests' = Posted(requests, url, data)
    /\ IF backend.kind = "error"
       THEN Raise(Exc(backend.cls, TransportErrorDetail(backend.cls))) /\ UNCHANGED response
       ELSE /\ response' = [status_code |-> backend.status_code, body |-> backend.body]
            /\ pc' = "raise_for_status"
            /\ UNCHANGED exc
    /\ UNCHANGED <<inputs, text, bot_token, tg_chat_id, url, data, result, ret,
                   stdout, stderr, envReads, exitCode, mark, outcomes>>

RaiseForStatus ==
    /\ pc = "raise_for_status"
    /\ IF RaisesForStatus(response.status_code)
       THEN Raise(Exc("HTTPError", HttpErrorDetail(response.status_code)))
       ELSE pc' = "json" /\ UNCHANGED exc
    /\ UNCHANGED <<inputs, locals, ret, effects, exitCode, mark, outcomes>>

\* response.json(): the decoded body, or the library's decode error
ResponseJson ==
    /\ pc = "json"
    /\ IF response.body.json
       THEN result' = response.body.value /\ pc' = "branch" /\ UNCHANGED exc
       ELSE Raise(Exc(jsonError, "Expecting value")) /\ UNCHANGED result
    /\ UNCHANGED <<inputs, text, bot_token, tg_chat_id, url, data, response, ret,
                   effects, exitCode, mark, outcomes>>

\* if result.get('ok'): the truth value of the field, None when absent
OkAcknowledgedIsTrue(res) ==
    DictGet(res, "ok", PyNone) = PyBool(TRUE)

OkAcknowledged(res) ==
    Truthy(DictGet(res, "ok", PyNone))

\* f"... {result.get('description', '...')}"
ApiErrorLineNoDescription(res) ==
    <<PREFIX_API_ERROR, UNKNOWN_ERROR>>

ApiErrorLine(res) ==
    <<PREFIX_API_ERROR, Str(DictGet(res, "description", PyStr(UNKNOWN_ERROR)))>>

\* result.get: only a dict has .get
BranchOnOk ==
    /\ pc = "branch"
    /\ IF result.t # "dict"
       THEN Raise(Exc("AttributeError", "object has no attribute 'get'"))
            /\ UNCHANGED <<stdout, ret>>
       ELSE IF OkAcknowledged(result)
            THEN WriteLine(MSG_SENT) /\ Return(PyBool(TRUE))
            ELSE WriteLine(ApiErrorLine(result)) /\ Return(PyBool(FALSE))
    /\ UNCHANGED <<inputs, locals, stderr, requests, envReads, exitCode, mark, outcomes>>

\* the first except clause whose class matches handles the exception
CaughtAsRequestException(e) ==
    e.cls \in RequestExceptionClasses

CaughtAsJSONDecodeError(e) ==
    ~CaughtAsRequestException(e) /\ e.cls \in JSONDecodeErrorClasses

ExceptRequestException ==
    /\ pc = "except"
    /\ CaughtAsRequestException(exc)
    /\ WriteLine(<<PREFIX_NETWORK_ERROR, exc.detail>>)
    /\ Return(PyBool(FALSE))
    /\ UNCHANGED <<inputs, locals, stderr, requests, envReads, exitCode, mark, outcomes>>

ExceptJSONDecodeError ==
    /\ pc = "except"
    /\ CaughtAsJSONDecodeError(exc)
    /\ WriteLine(<<PREFIX_JSON_ERROR, exc.detail>>)
    /\ Return(PyBool(FALSE))
    /\ UNCHANGED <<inputs, locals, stderr, requests, envReads, exitCode, mark, outcomes>>

\* no clause matches: the exception leaves send_telegram_message
Propagate ==
    /\ pc = "except"
    /\ ~CaughtAsRequestException(exc)
    /\ ~CaughtAsJSONDecodeError(exc)
    /\ pc' = "raised"
    /\ UNCHANGED <<inputs, locals, exc, ret, effects, exitCode, mark, outcomes>>

Send ==
    \/ ReadEnvironment
    \/ CheckBotToken
    \/ CheckChatId
    \/ BuildRequest
    \/ Post
    \/ RaiseForStatus
    \/ ResponseJson
    \/ BranchOnOk
    \/ ExceptRequestException
    \/ ExceptJSONDecodeError
    \/ Propagate

Next ==
    \/ MainUsage
    \/ MainCall
    \/ Send
    \/ MainExit
    \/ MainUncaught

Spec == Init /\ [][Next]_vars

(***************************************************************************)
(* Repeated direct calls: a harness calls send_telegram_message(text)      *)
(* MaxCalls times in one process, with the same text, the same environment *)
(* and the same backend, and records what each call did.                   *)
(***************************************************************************)
InitTwice ==
    /\ argv \in {<<t>> : t \in Texts}
    /\ caller = "harness"
    /\ pc = "harness"
    /\ InitRun

HarnessCall ==
    /\ caller = "harness"
    /\ pc = "harness"
    /\ Len(outcomes) < MaxCalls
    /\ Call(argv[1])
    /\ mark' = <<Len(stdout), Len(requests)>>
    /\ UNCHANGED <<inputs, effects, exitCode, outcomes>>

\* what the call that just ended did: its result, its output, its requests
Outcome ==
    [ret     |-> ret,
     raised  |-> IF pc = "raised" THEN exc.cls ELSE "",
     printed |-> SubSeq(stdout, mark[1] + 1, Len(stdout)),
     posted  |-> SubSeq(requests, mark[2] + 1, Len(requests))]

HarnessRecord ==
    /\ caller = "harness"
    /\ pc \in {"returned", "raised"}
    /\ outcomes' = Append(outcomes, Outcome)
    /\ pc' = "harness"
    /\ UNCHANGED <<inputs, locals, exc, ret, effects, exitCode, mark>>

NextTwice ==
    \/ HarnessCall
    \/ Send
    \/ HarnessRecord

SpecTwice == InitTwice /\ [][NextTwice]_vars

(***************************************************************************)
(* Vocabulary of the properties: facts about the inputs of the run.        *)
(***************************************************************************)
Exited == pc = "exited"
OneArgument == Len(argv) = 1
\* send_telegram_message was called in this run
SendCalled == text # Unbound

TokenSet == environ.EMU_ALERT_TG_BOT_TOKEN # EnvUnset
ChatSet == environ.EMU_ALERT_TG_CHAT_ID # EnvUnset
TokenNonEmpty == TokenSet /\ environ.EMU_ALERT_TG_BOT_TOKEN # PyStr("")
ChatNonEmpty == ChatSet /\ environ.EMU_ALERT_TG_CHAT_ID # PyStr("")

Responded == backend.kind = "response"
Status2xx == Responded /\ backend.status_code \in 200..299
Status4xx5xx == Responded /\ backend.status_code \in 400..599
BodyIsJson == Responded /\ backend.body.json
BodyIsObject == BodyIsJson /\ backend.body.value.t = "dict"
HasField(k) == BodyIsObject /\ k \in DOMAIN backend.body.value.d
Field(k) == backend.body.value.d[k]

\* the values Python's truth test takes for false
FalsyValues ==
    {PyBool(FALSE), PyNone, PyInt(0), PyStr(""), PyList(<<>>), PyDict(<<>>)}

(***************************************************************************)
(* C1                                                                      *)
(***************************************************************************)
C1_Acknowledged ==
    /\ OneArgument /\ TokenSet /\ ChatSet
    /\ Responded /\ ~Status4xx5xx
    /\ HasField("ok") /\ Field("ok") = PyBool(TRUE)

\* C1 as stated: the process exits 0 exactly when one argument was given,
\* both environment variables were present, the POST met no transport or
\* HTTP-status error and the body was JSON whose ok field equals true; it
\* exits 1 in every other case.
C1_ExitZeroIffOkEqualsTrue ==
    Exited => /\ exitCode \in {PyInt(0), PyInt(1)}
              /\ exitCode = PyInt(0) <=> C1_Acknowledged

C1_AcknowledgedTruthy ==
    /\ OneArgument /\ TokenNonEmpty /\ ChatNonEmpty
    /\ Responded /\ ~Status4xx5xx
    /\ HasField("ok") /\ Field("ok") \notin FalsyValues

\* C1 amended: the process exits 0 exactly when one argument was given, both
\* environment variables were set to non-empty values, the POST met no
\* transport error and no 4xx/5xx status, and the body was a JSON object
\* whose ok field is truthy; it exits 1 in every other case.
C1_ExitZeroIffOkTruthy ==
    Exited => /\ exitCode \in {PyInt(0), PyInt(1)}
              /\ exitCode = PyInt(0) <=> C1_AcknowledgedTruthy

\* a delivered and acknowledged message: success line, exit 0
C1_Witness ==
    /\ Exited /\ exitCode = PyInt(0)
    /\ HasField("ok") /\ Field("ok") = PyBool(TRUE)
    /\ stdout = <<MSG_SENT>>

(***************************************************************************)
(* C2                                                                      *)
(***************************************************************************)
\* C2: when EMU_ALERT_TG_BOT_TOKEN or EMU_ALERT_TG_CHAT_ID is missing from
\* the environment, send_telegram_message fails before it builds or sends
\* anything, no HTTP request is issued at any point of the run, and the
\* process exits 1.
C2_MissingConfigNoRequest ==
    (~TokenSet \/ ~ChatSet) =>
        /\ requests = <<>>
        /\ url = Unbound /\ data = Unbound /\ response = Unbound
        /\ pc \in {"main", "getenv", "check_token", "check_chat", "returned", "exited"}
        /\ pc = "returned" => ret = PyBool(FALSE)
        /\ Exited => exitCode = PyInt(1)

\* one argument, the token set, the chat id missing: the call has failed
C2_Witness ==
    /\ Exited /\ OneArgument /\ TokenNonEmpty /\ ~ChatSet
    /\ ret = PyBool(FALSE) /\ stdout = <<MSG_NO_CHAT_ID>>
    /\ exitCode = PyInt(1)

(***************************************************************************)
(* C3                                                                      *)
(***************************************************************************)
\* C3: when the number of command-line arguments is not exactly one, main
\* prints the usage guidance, exits 1 and never calls
\* send_telegram_message: the environment is not read and no HTTP request
\* is issued.
C3_UsageError ==
    Len(argv) # 1 =>
        /\ ~SendCalled
        /\ envReads = <<>> /\ requests = <<>>
        /\ pc \in {"main", "exited"}
        /\ Exited => /\ stdout = <<MSG_USAGE, MSG_USAGE_ENV>>
                     /\ exitCode = PyInt(1)

\* two arguments, a fully usable configuration: still the usage error
C3_Witness ==
    /\ Exited /\ Len(argv) = 2 /\ TokenNonEmpty /\ ChatNonEmpty
    /\ stdout = <<MSG_USAGE, MSG_USAGE_ENV>> /\ exitCode = PyInt(1)

(***************************************************************************)
(* C4                                                                      *)
(***************************************************************************)
\* C4 as stated: at most one HTTP POST per run; exactly one when one
\* argument is given and both environment variables are present; no second
\* request after a failure of the first.
C4_OneRequestWhenPresent ==
    /\ Len(requests) <= 1
    /\ (Exited /\ OneArgument /\ TokenSet /\ ChatSet) => Len(requests) = 1

\* C4 amended: at most one HTTP POST per run; exactly one when one argument
\* is given and both environment variables are present and non-empty; no
\* second request after a failure of the first.
C4_OneRequestWhenNonEmpty ==
    /\ Len(requests) <= 1
    /\ (Exited /\ OneArgument /\ TokenNonEmpty /\ ChatNonEmpty) => Len(requests) = 1

\* the only request of a run failed and the run ended without another
C4_Witness ==
    /\ Exited /\ Len(requests) = 1
    /\ ~Responded
    /\ exitCode = PyInt(1)

(***************************************************************************)
(* C5                                                                      *)
(***************************************************************************)
\* the run reached the backend: one argument, a usable configuration
RequestMade == OneArgument /\ TokenNonEmpty /\ ChatNonEmpty

\* C5: when the POST completes with a 2xx status and the body is not valid
\* JSON, the one line printed is the parse-error diagnostic, not the
\* network-error diagnostic, and the process exits 1.
C5_ParseFailureReported ==
    (Exited /\ RequestMade /\ Status2xx /\ ~BodyIsJson) =>
        /\ Len(stdout) = 1
        /\ stdout[1][1] = PREFIX_JSON_ERROR
        /\ exitCode = PyInt(1)

\* an undecodable 2xx body reported with the network-error diagnostic
C5_Witness ==
    /\ Exited /\ RequestMade /\ Status2xx /\ ~BodyIsJson
    /\ Len(stdout) = 1 /\ stdout[1][1] = PREFIX_NETWORK_ERROR

C7_NetworkFailureReported ==
    /\ result = Unbound
    /\ Len(stdout) = 1
    /\ stdout[1][1] = PREFIX_NETWORK_ERROR
    /\ backend.kind = "error" =>
          stdout[1][2] = (IF backend.cls = "Timeout" THEN "timed out"
                                                     ELSE "Connection refused")
    /\ Status4xx5xx =>
          stdout[1][2] = (IF backend.status_code \in 400..499 THEN "Client Error"
                                                              ELSE "Server Error")
    /\ ret = PyBool(FALSE)
    /\ exitCode = PyInt(1)

\* C7 as stated: when the POST fails at the network level or returns a
\* non-2xx status, the body is not interpreted, the network-error
\* diagnostic with the error detail is printed and the process exits 1.
C7_Non2xxIsNetworkFailure ==
    (Exited /\ RequestMade /\ ~Status2xx) => C7_NetworkFailureReported

\* C7 amended: when the POST fails at the network level or returns a 4xx
\* or 5xx status, the body is not interpreted, the network-error diagnostic
\* with the error detail is printed and the process exits 1.
C7_ErrorStatusIsNetworkFailure ==
    (Exited /\ RequestMade /\ (~Responded \/ Status4xx5xx))
        => C7_NetworkFailureReported

\* a 4xx response whose body is {"ok": true}: reported as a network failure
C7_Witness ==
    /\ Exited /\ RequestMade /\ Status4xx5xx
    /\ HasField("ok") /\ Field("ok") = PyBool(TRUE)
    /\ stdout = <<<<PREFIX_NETWORK_ERROR, "Client Error">>>>
    /\ exitCode = PyInt(1)

(***************************************************************************)
(* C8                                                                      *)
(***************************************************************************)
\* C8: every run that ends has printed a line to standard output, every
\* failing run has printed a diagnostic and exits non-zero, and no
\* exception leaves send_telegram_message unhandled, whatever the response
\* (a JSON array, string, number or null included).
C8_EveryOutcomeReported ==
    /\ pc # "raised"
    /\ Exited => /\ stdout # <<>>
                 /\ stderr = <<>>
                 /\ exitCode \in {PyInt(0), PyInt(1)}

\* a 2xx JSON body that is no object ended the run with a traceback only
C8_Witness ==
    /\ Exited /\ Status2xx /\ BodyIsJson /\ ~BodyIsObject
    /\ stdout = <<>> /\ stderr # <<>>

(***************************************************************************)
(* C10                                                                     *)
(***************************************************************************)
\* C10: the flow of send_telegram_message is the linear sequence validate
\* config, build payload, send, parse, branch on ok, the bot token checked
\* before the chat id: with both variables missing only the bot-token
\* diagnostic is printed, the chat-id diagnostic only with the token
\* present, payload and request only after both checks passed, and a run
\* ends in one terminal outcome with exactly one diagnostic or success line.
C10_LinearFlowOneOutcome ==
    /\ (SendCalled /\ ~TokenSet /\ ~ChatSet) => stdout \in {<<>>, <<MSG_NO_BOT_TOKEN>>}
    /\ (pc = "returned" /\ ~TokenSet /\ ~ChatSet) => stdout = <<MSG_NO_BOT_TOKEN>>
    /\ (\E i \in 1..Len(stdout) : stdout[i] = MSG_NO_CHAT_ID) => TokenSet
    /\ (data # Unbound \/ url # Unbound \/ requests # <<>>)
          => (TokenSet /\ ChatSet /\ bot_token # Unbound /\ tg_chat_id # Unbound)
    /\ response # Unbound => requests # <<>>
    /\ result # Unbound => response # Unbound
    /\ (Exited /\ SendCalled) =>
          /\ Len(stdout) = 1
          /\ ret \in {PyBool(TRUE), PyBool(FALSE)}

\* the run ended after send_telegram_message raised instead of returning
C10_Witness ==
    /\ Exited /\ SendCalled
    /\ ret = NoReturn /\ stdout = <<>>

(***************************************************************************)
(* C9, under SpecTwice                                                     *)
(***************************************************************************)
\* C9: calls of send_telegram_message with the same text, the same
\* environment and a backend that answers the same way have identical
\* outcomes (return value or exception, printed lines, request payload):
\* nothing the first call wrote influences a later one.
C9_RepeatedCallsAgree ==
    \A i \in 1..Len(outcomes) : outcomes[i] = outcomes[1]

\* two calls ended, each sent its request and was acknowledged
C9_Witness ==
    /\ Len(outcomes) >= 2
    /\ Len(requests) >= 2
    /\ outcomes[2].ret = PyBool(TRUE)
    /\ Len(outcomes[2].posted) = 1
    /\ outcomes[2].printed = <<MSG_SENT>>

====
